---- MODULE Spec2Model ----
(***************************************************************************)
(* The PNM decoder of src/pnm/decoder.rs as a state machine.               *)
(*                                                                         *)
(* A session owns one forward-only byte stream wrapped in a BufReader.     *)
(* PNMDecoder::new parses the magic constant and the header and resolves   *)
(* the tuple type, read_image decodes the samples, into_inner hands the    *)
(* stream and the header back.  Bytes are the naturals 0..255, strings are *)
(* sequences of bytes.  A u32 is kept as two 16-bit limbs so that its      *)
(* width (and the wrap-around of its products) is that of the program.     *)
(***************************************************************************)
EXTENDS Integers, Sequences, FiniteSets, TLC

---------------------------------------------------------------------------
(* Bytes the code names.                                                   *)

TAB == 9
LF == 10
VT == 11
FF == 12
CR == 13
SP == 32
HASH == 35
PLUS == 43
CHAR_0 == 48
CHAR_9 == 57
CHAR_P == 80

Whitespace == {TAB, LF, VT, FF, CR, SP}

kwHEIGHT == <<72, 69, 73, 71, 72, 84>>
kwWIDTH == <<87, 73, 68, 84, 72>>
kwDEPTH == <<68, 69, 80, 84, 72>>
kwMAXVAL == <<77, 65, 88, 86, 65, 76>>
kwTUPLTYPE == <<84, 85, 80, 76, 84, 89, 80, 69>>
kwENDHDR == <<69, 78, 68, 72, 68, 82>>
kwBLACKANDWHITE == <<66, 76, 65, 67, 75, 65, 78, 68, 87, 72, 73, 84, 69>>
kwALPHA == <<95, 65, 76, 80, 72, 65>>
kwGRAYSCALE == <<71, 82, 65, 89, 83, 67, 65, 76, 69>>
kwRGB == <<82, 71, 66>>

Min(a, b) == IF a <= b THEN a ELSE b

---------------------------------------------------------------------------
(* u32: [hi, lo], value hi * 2^16 + lo.                                    *)

U32(hi, lo) == [hi |-> hi, lo |-> lo]
Small(n) == U32(0, n)

U32Le(a, b) == a.hi < b.hi \/ (a.hi = b.hi /\ a.lo <= b.lo)

(* The four base-256 digits of a u32, least significant first.             *)
Digits256(x) == <<x.lo % 256, x.lo \div 256, x.hi % 256, x.hi \div 256>>

(* a * b on u32: the low 32 bits of the product and whether the product    *)
(* needed more (what `*` wraps in a build without overflow checks and      *)
(* panics on in a build with them).                                        *)
u32_mul(a, b) ==
    LET da == Digits256(a)
        db == Digits256(b)
        Col(k) == LET Term(i) == IF k - i \in 0..3 /\ i <= k
                                 THEN da[i + 1] * db[k - i + 1] ELSE 0
                  IN Term(0) + Term(1) + Term(2) + Term(3)
        R[k \in 0..7] == IF k = 0 THEN Col(0) ELSE Col(k) + (R[k - 1] \div 256)
        D(k) == R[k] % 256
    IN [val |-> U32(D(2) + 256 * D(3), D(0) + 256 * D(1)),
        ovf |-> \E k \in 4..7 : D(k) # 0]

(* `x as usize`, as a natural the model can count with.  A value of 2^31   *)
(* or more is kept as 2^31 - 1, the largest integer at hand: every stream  *)
(* of the model is shorter, and the code only compares such a length with  *)
(* what the stream still holds.                                            *)
as_usize(x) == IF x.hi < 32768 THEN x.hi * 65536 + x.lo ELSE 2147483647

---------------------------------------------------------------------------
(* The stream and its BufReader.  data is what the stream holds, chunk the *)
(* most bytes one read of the stream returns, pulled how many bytes the    *)
(* BufReader has taken out of the stream, pos how many of them its users   *)
(* have consumed: the bytes pos+1..pulled sit in the buffer.               *)

BufCap == 8192

InnerRead(r, n) == Min(Min(r.chunk, n), Len(r.data) - r.pulled)

fill_buf(r) ==
    IF r.pos >= r.pulled
    THEN [r EXCEPT !.pulled = @ + InnerRead(r, BufCap)]
    ELSE r

(* BufReader::read into a buffer of n bytes: the reader after it and the   *)
(* number of bytes it delivered.                                           *)
buf_read(r, n) ==
    LET direct(g) == [r |-> [r EXCEPT !.pulled = @ + g, !.pos = @ + g], n |-> g]
        copy(f, g) == [r |-> [f EXCEPT !.pos = @ + g], n |-> g]
        buffered(f) == copy(f, Min(f.pulled - f.pos, n))
    IN IF r.pos = r.pulled /\ n >= BufCap
       THEN direct(InnerRead(r, n))
       ELSE buffered(fill_buf(r))

(* Read::read_exact of n bytes.                                            *)
RECURSIVE read_exact(_, _)
read_exact(r, n) ==
    LET step(x) == IF x.n = 0 THEN [ok |-> FALSE, r |-> x.r]
                   ELSE read_exact(x.r, n - x.n)
    IN IF n = 0 THEN [ok |-> TRUE, r |-> r]
       ELSE step(buf_read(r, n))

(* Read::bytes().next()                                                    *)
next_byte(r) ==
    LET item(x) == [some |-> x.n = 1,
                    byte |-> IF x.n = 1 THEN r.data[r.pos + 1] ELSE 0,
                    r |-> x.r]
    IN item(buf_read(r, 1))

(* read_until never stopping at the delimiter.                             *)
read_until_Greedy(r, delim) == [r EXCEPT !.pos = Len(r.data), !.pulled = Len(r.data)]

(* BufRead::read_until(b'\n'), the byte loop of read_line: the reader      *)
(* after the line, terminator included, or after the end of the stream.    *)
RECURSIVE read_until(_, _)
read_until(r, delim) ==
    LET available(f) ==
            LET hits == {p \in (f.pos + 1)..f.pulled : f.data[p] = delim}
            IN IF f.pos = f.pulled THEN f
               ELSE IF hits # {}
                    THEN [f EXCEPT !.pos = CHOOSE p \in hits : \A q \in hits : p <= q]
                    ELSE read_until([f EXCEPT !.pos = f.pulled], delim)
    IN available(fill_buf(r))

is_ascii(s) == \A i \in 1..Len(s) : s[i] < 128

---------------------------------------------------------------------------
(* Strings.                                                                *)

(* str::from_utf8 succeeds on s: s[i..] is well-formed UTF-8.              *)
RECURSIVE utf8_from(_, _)
utf8_from(s, i) ==
    LET n == Len(s)
        Cont(j, lo, hi) == j <= n /\ s[j] >= lo /\ s[j] <= hi
        b == s[i]
    IN IF i > n THEN TRUE
       ELSE IF b < 128 THEN utf8_from(s, i + 1)
       ELSE IF b >= 194 /\ b <= 223
            THEN Cont(i + 1, 128, 191) /\ utf8_from(s, i + 2)
       ELSE IF b >= 224 /\ b <= 239
            THEN /\ Cont(i + 1, IF b = 224 THEN 160 ELSE 128,
                                IF b = 237 THEN 159 ELSE 191)
                 /\ Cont(i + 2, 128, 191)
                 /\ utf8_from(s, i + 3)
       ELSE IF b >= 240 /\ b <= 244
            THEN /\ Cont(i + 1, IF b = 240 THEN 144 ELSE 128,
                                IF b = 244 THEN 143 ELSE 191)
                 /\ Cont(i + 2, 128, 191)
                 /\ Cont(i + 3, 128, 191)
                 /\ utf8_from(s, i + 4)
       ELSE FALSE

is_utf8(s) == utf8_from(s, 1)

(* str::find(char::is_whitespace) on an ASCII string: the 0-based index of *)
(* the first whitespace, or the length when there is none (unwrap_or_else).*)
find_whitespace(s) ==
    LET ws == {i \in 1..Len(s) : s[i] \in Whitespace}
    IN IF ws = {} THEN Len(s)
       ELSE (CHOOSE i \in ws : \A j \in ws : i <= j) - 1

trim_left(s) ==
    LET keep == {i \in 1..Len(s) : s[i] \notin Whitespace}
    IN IF keep = {} THEN <<>>
       ELSE SubSeq(s, CHOOSE i \in keep : \A j \in keep : i <= j, Len(s))

trim(s) ==
    LET keep == {i \in 1..Len(s) : s[i] \notin Whitespace}
    IN IF keep = {} THEN <<>>
       ELSE SubSeq(s, CHOOSE i \in keep : \A j \in keep : i <= j,
                      CHOOSE i \in keep : \A j \in keep : i >= j)

(* str::parse::<u32>: an optional '+', then one or more decimal digits     *)
(* whose value fits 32 bits (checked_mul, checked_add).                    *)
RECURSIVE parse_digits(_, _, _)
parse_digits(s, i, acc) ==
    IF i > Len(s) THEN [ok |-> TRUE, val |-> acc]
    ELSE IF s[i] < CHAR_0 \/ s[i] > CHAR_9 THEN [ok |-> FALSE, val |-> acc]
    ELSE LET lo == acc.lo * 10 + (s[i] - CHAR_0)
             hi == acc.hi * 10 + (lo \div 65536)
         IN IF hi >= 65536 THEN [ok |-> FALSE, val |-> acc]
            ELSE parse_digits(s, i + 1, U32(hi, lo % 65536))

parse_u32(s) ==
    LET digits == IF Len(s) > 0 /\ s[1] = PLUS THEN SubSeq(s, 2, Len(s)) ELSE s
    IN IF digits = <<>> THEN [ok |-> FALSE, val |-> Small(0)]
       ELSE parse_digits(digits, 1, Small(0))

---------------------------------------------------------------------------
(* Outcomes: what a call returns (Ok, or Err with an ImageError) or that   *)
(* it panicked.                                                            *)

Err(err, msg) == [kind |-> "Err", err |-> err, msg |-> msg]
OkOutcome == [kind |-> "Ok", err |-> "", msg |-> ""]
Panicked(msg) == [kind |-> "Panic", err |-> "", msg |-> msg]

---------------------------------------------------------------------------
(* HeaderReader.                                                           *)

(* read_magic_constant                                                     *)
read_magic_constant(r) ==
    LET magic(x) ==
            IF x.ok
            THEN [out |-> OkOutcome, r |-> x.r, magic |-> SubSeq(r.data, r.pos + 1, r.pos + 2)]
            ELSE [out |-> Err("NotEnoughData", ""), r |-> x.r, magic |-> <<>>]
    IN magic(read_exact(r, 2))

(* comment_mask with the byte that ends a comment let through.             *)
comment_mask_LineEndKept(partof, byte) ==
    [cur |-> (partof /\ byte # HASH) \/ (~partof /\ byte \in {CR, LF}),
     next |-> (partof /\ byte # HASH) \/ byte = CR \/ byte = LF]

(* The closure of mark_comments: cur says whether the byte passes the      *)
(* filter, next is the scan state after it.                                *)
comment_mask(partof, byte) ==
    [cur |-> partof /\ byte # HASH,
     next |-> (partof /\ byte # HASH) \/ byte = CR \/ byte = LF]

(* The loop of read_next_string over the bytes the comment mask lets       *)
(* through.  partof is the scan state: the next byte is not in a comment.  *)
RECURSIVE scan_string(_, _, _)
scan_string(r, partof, bytes) ==
    LET mark(nb) ==
            LET cur_enabled == comment_mask(partof, nb.byte).cur
                next_enabled == comment_mask(partof, nb.byte).next
            IN IF ~nb.some THEN [r |-> nb.r, bytes |-> bytes]
               ELSE IF ~cur_enabled THEN scan_string(nb.r, next_enabled, bytes)
               ELSE IF nb.byte \in Whitespace
                    THEN IF bytes # <<>> THEN [r |-> nb.r, bytes |-> bytes]
                         ELSE scan_string(nb.r, next_enabled, bytes)
               ELSE scan_string(nb.r, next_enabled, Append(bytes, nb.byte))
    IN mark(next_byte(r))

read_next_string(r) ==
    LET string(x) ==
            IF x.bytes = <<>>
            THEN [out |-> Err("FormatError", "Unexpected eof"), r |-> x.r, s |-> <<>>]
            ELSE IF ~is_ascii(x.bytes)
                 THEN [out |-> Err("FormatError", "Non ascii character in preamble"),
                       r |-> x.r, s |-> <<>>]
            ELSE [out |-> OkOutcome, r |-> x.r, s |-> x.bytes]
    IN string(scan_string(r, TRUE, <<>>))

read_next_u32(r) ==
    LET number(x, p) ==
            IF x.out.kind # "Ok" THEN [out |-> x.out, r |-> x.r, val |-> Small(0)]
            ELSE IF ~p.ok
                 THEN [out |-> Err("FormatError", "Invalid number in preamble"),
                       r |-> x.r, val |-> Small(0)]
            ELSE [out |-> OkOutcome, r |-> x.r, val |-> p.val]
        string(x) == number(x, parse_u32(x.s))
    IN string(read_next_string(r))

NoHeader == [subtype |-> "None"]

read_bitmap_header(r, encoding) ==
    LET height(w, h) ==
            IF w.out.kind # "Ok" THEN [out |-> w.out, r |-> w.r, header |-> NoHeader]
            ELSE IF h.out.kind # "Ok" THEN [out |-> h.out, r |-> h.r, header |-> NoHeader]
            ELSE [out |-> OkOutcome, r |-> h.r,
                  header |-> [subtype |-> "Bitmap", encoding |-> encoding,
                              width |-> w.val, height |-> h.val]]
        width(w) == height(w, read_next_u32(w.r))
    IN width(read_next_u32(r))

read_pixmap_header(r, encoding) ==
    LET maxval(w, h, m) ==
            IF w.out.kind # "Ok" THEN [out |-> w.out, r |-> w.r, header |-> NoHeader]
            ELSE IF h.out.kind # "Ok" THEN [out |-> h.out, r |-> h.r, header |-> NoHeader]
            ELSE IF m.out.kind # "Ok" THEN [out |-> m.out, r |-> m.r, header |-> NoHeader]
            ELSE [out |-> OkOutcome, r |-> m.r,
                  header |-> [subtype |-> "Pixmap", encoding |-> encoding,
                              width |-> w.val, height |-> h.val, maxval |-> m.val]]
        height(w, h) == maxval(w, h, read_next_u32(h.r))
        width(w) == height(w, read_next_u32(w.r))
    IN width(read_next_u32(r))

(* The graymap header is read as width, height, maxwhite: the same three   *)
(* numbers as the pixmap header, under the graymap's field name.           *)
read_graymap_header(r, encoding) ==
    LET maxwhite(x) ==
            IF x.out.kind # "Ok" THEN x
            ELSE [x EXCEPT !.header = [subtype |-> "Graymap",
                                       encoding |-> x.header.encoding,
                                       width |-> x.header.width,
                                       height |-> x.header.height,
                                       maxwhite |-> x.header.maxval]]
    IN maxwhite(read_pixmap_header(r, encoding))

None32 == [some |-> FALSE, v |-> Small(0)]
Some32(v) == [some |-> TRUE, v |-> v]

(* scalar_line letting a later line replace the value of an earlier one.   *)
scalar_line_Overwriting(slot, rest, dup, invalid) ==
    LET value(p) ==
            IF ~p.ok THEN [out |-> Err("FormatError", invalid), slot |-> slot]
            ELSE [out |-> OkOutcome, slot |-> Some32(p.val)]
    IN value(parse_u32(trim(rest)))

(* One `KEY value` line of the PAM header whose key is HEIGHT, WIDTH,      *)
(* DEPTH or MAXVAL: the arm of the match for that key.                     *)
scalar_line(slot, rest, dup, invalid) ==
    LET value(p) ==
            IF slot.some THEN [out |-> Err("FormatError", dup), slot |-> slot]
            ELSE IF ~p.ok THEN [out |-> Err("FormatError", invalid), slot |-> slot]
            ELSE [out |-> OkOutcome, slot |-> Some32(p.val)]
    IN value(parse_u32(trim(rest)))

(* tupltype_line with a later line replacing the earlier ones.             *)
tupltype_line_Replacing(tupltype, rest) == [some |-> TRUE, s |-> trim(rest)]

(* The TUPLTYPE arm: the first line sets the accumulator, a later one      *)
(* appends a space and its trimmed value.                                  *)
tupltype_line(tupltype, rest) ==
    IF tupltype.some
    THEN [some |-> TRUE, s |-> tupltype.s \o <<SP>> \o trim(rest)]
    ELSE [some |-> TRUE, s |-> trim(rest)]

(* The line loop of read_arbitrary_header.  f holds the five slots.        *)
RECURSIVE header_lines(_, _)
header_lines(r, f) ==
    LET split(r2, line, at, trimmed) ==
            LET identifier == SubSeq(trimmed, 1, at)
                rest == SubSeq(trimmed, at + 1, Len(trimmed))
                Stop(out) == [out |-> out, r |-> r2, f |-> f]
                Stored(name, x) ==
                    IF x.out.kind # "Ok" THEN Stop(x.out)
                    ELSE header_lines(r2, [f EXCEPT ![name] = x.slot])
                Scalar(name, dup, invalid) ==
                    Stored(name, scalar_line(f[name], rest, dup, invalid))
            IN IF ~is_utf8(line)
               THEN Stop(Err("IoError", "stream did not contain valid UTF-8"))
               ELSE IF line = <<>> THEN Stop(Panicked("index out of bounds"))
               ELSE IF line[1] = HASH THEN header_lines(r2, f)
               ELSE IF ~is_ascii(line)
                    THEN Stop(Err("FormatError",
                                  "Only ascii characters allowed in pam header"))
               ELSE IF at > Len(trimmed) THEN Stop(Panicked("split_at out of bounds"))
               ELSE IF identifier = kwENDHDR THEN Stop(OkOutcome)
               ELSE IF identifier = kwHEIGHT
                    THEN Scalar("height", "Duplicate HEIGHT line", "Invalid height")
               ELSE IF identifier = kwWIDTH
                    THEN Scalar("width", "Duplicate WIDTH line", "Invalid width")
               ELSE IF identifier = kwDEPTH
                    THEN Scalar("depth", "Duplicate DEPTH line", "Invalid depth")
               ELSE IF identifier = kwMAXVAL
                    THEN Scalar("maxval", "Duplicate MAXVAL line", "Invalid maxval")
               ELSE IF identifier = kwTUPLTYPE
                    THEN header_lines(r2, [f EXCEPT !.tupltype =
                                                 tupltype_line(f.tupltype, rest)])
               ELSE Stop(Err("FormatError", "Unknown header line"))
        text(r2, line) == split(r2, line, find_whitespace(line), trim_left(line))
        read_line(r2) == text(r2, SubSeq(r.data, r.pos + 1, r2.pos))
    IN read_line(read_until(r, LF))

(* The accumulated TUPLTYPE string as an ArbitraryTuplType.                *)
tupltype_tag(t) ==
    IF ~t.some THEN [tag |-> "None", text |-> <<>>]
    ELSE IF t.s = kwBLACKANDWHITE THEN [tag |-> "BlackAndWhite", text |-> <<>>]
    ELSE IF t.s = kwBLACKANDWHITE \o kwALPHA THEN [tag |-> "BlackAndWhiteAlpha", text |-> <<>>]
    ELSE IF t.s = kwGRAYSCALE THEN [tag |-> "Grayscale", text |-> <<>>]
    ELSE IF t.s = kwGRAYSCALE \o kwALPHA THEN [tag |-> "GrayscaleAlpha", text |-> <<>>]
    ELSE IF t.s = kwRGB THEN [tag |-> "RGB", text |-> <<>>]
    ELSE IF t.s = kwRGB \o kwALPHA THEN [tag |-> "RGBAlpha", text |-> <<>>]
    ELSE [tag |-> "Custom", text |-> t.s]

read_arbitrary_header(r) ==
    LET Stop(out, rd) == [out |-> out, r |-> rd, header |-> NoHeader]
        fields(x) ==
            IF x.out.kind # "Ok" THEN Stop(x.out, x.r)
            ELSE IF ~x.f.height.some
                 THEN Stop(Err("FormatError", "Expected one HEIGHT line"), x.r)
            ELSE IF ~x.f.width.some
                 THEN Stop(Err("FormatError", "Expected one WIDTH line"), x.r)
            ELSE IF ~x.f.depth.some
                 THEN Stop(Err("FormatError", "Expected one DEPTH line"), x.r)
            ELSE IF ~x.f.maxval.some
                 THEN Stop(Err("FormatError", "Expected one MAXVAL line"), x.r)
            ELSE [out |-> OkOutcome, r |-> x.r,
                  header |-> [subtype |-> "ArbitraryMap",
                              height |-> x.f.height.v, width |-> x.f.width.v,
                              depth |-> x.f.depth.v, maxval |-> x.f.maxval.v,
                              tupltype |-> tupltype_tag(x.f.tupltype)]]
        newline(first) ==
            IF ~first.some THEN Stop(Err("FormatError", "Input too short"), first.r)
            ELSE IF first.byte # LF
                 THEN Stop(Err("FormatError", "Expected newline after P7"), first.r)
            ELSE fields(header_lines(first.r,
                                     [height |-> None32, width |-> None32,
                                      depth |-> None32, maxval |-> None32,
                                      tupltype |-> [some |-> FALSE, s |-> <<>>]]))
    IN newline(next_byte(r))

---------------------------------------------------------------------------
(* DecodableImageHeader::tuple_type                                        *)

Resolved(t) == [out |-> OkOutcome, tuple |-> t]
Unresolved(out) == [out |-> out, tuple |-> "None"]

bitmap_tuple_type(h) == Resolved("PbmBit")

graymap_tuple_type(h) ==
    IF U32Le(h.maxwhite, Small(255)) THEN Resolved("GrayU8")
    ELSE IF U32Le(h.maxwhite, Small(65535)) THEN Resolved("GrayU16")
    ELSE Unresolved(Err("FormatError", "Image maxval is not less or equal to 65535"))

pixmap_tuple_type(h) ==
    IF U32Le(h.maxval, Small(255)) THEN Resolved("RGBU8")
    ELSE IF U32Le(h.maxval, Small(65535)) THEN Resolved("RGBU16")
    ELSE Unresolved(Err("FormatError", "Image maxval is not less or equal to 65535"))

(* The arms without the depth 2 and depth 4 cases.                         *)
depth_tuple_type_NoAlpha(h) ==
    IF h.depth = Small(1) THEN Resolved("GrayU8")
    ELSE IF h.depth = Small(3) THEN Resolved("RGBU8")
    ELSE Unresolved(Err("FormatError", "Tuple type not recognized"))

(* The arms of ArbitraryHeader::tuple_type for a header without TUPLTYPE:  *)
(* the four `None if self.depth == n` arms, then the catch-all.            *)
depth_tuple_type(h) ==
    IF h.depth = Small(1) THEN Resolved("GrayU8")
    ELSE IF h.depth = Small(2) THEN Unresolved(Err("UnsupportedColor", "GrayA(8)"))
    ELSE IF h.depth = Small(3) THEN Resolved("RGBU8")
    ELSE IF h.depth = Small(4) THEN Unresolved(Err("UnsupportedColor", "RGBA(8)"))
    ELSE Unresolved(Err("FormatError", "Tuple type not recognized"))

arbitrary_tuple_type(h) ==
    LET tag == h.tupltype.tag
    IN IF tag = "None" THEN depth_tuple_type(h)
       ELSE IF tag = "BlackAndWhite" /\ h.maxval = Small(1) /\ h.depth = Small(1)
            THEN Resolved("BWBit")
       ELSE IF tag = "BlackAndWhite"
            THEN Unresolved(Err("FormatError",
                                "Invalid depth or maxval for tuple type BLACKANDWHITE"))
       ELSE IF tag = "Grayscale" /\ h.depth = Small(1) /\ U32Le(h.maxval, Small(255))
            THEN Resolved("GrayU8")
       ELSE IF tag = "Grayscale" /\ U32Le(h.depth, Small(1)) /\ U32Le(h.maxval, Small(65535))
            THEN Resolved("GrayU16")
       ELSE IF tag = "Grayscale"
            THEN Unresolved(Err("FormatError",
                                "Invalid depth or maxval for tuple type GRAYSCALE"))
       ELSE IF tag = "RGB" /\ h.depth = Small(3) /\ U32Le(h.maxval, Small(255))
            THEN Resolved("RGBU8")
       ELSE IF tag = "RGB" /\ h.depth = Small(3) /\ U32Le(h.maxval, Small(65535))
            THEN Resolved("RGBU16")
       ELSE IF tag = "RGB"
            THEN Unresolved(Err("FormatError", "Invalid depth for tuple type RGB"))
       ELSE IF tag = "BlackAndWhiteAlpha"
            THEN Unresolved(Err("UnsupportedColor", "GrayA(1)"))
       ELSE IF tag = "GrayscaleAlpha"
            THEN Unresolved(Err("UnsupportedColor", "GrayA(8)"))
       ELSE IF tag = "RGBAlpha"
            THEN Unresolved(Err("UnsupportedColor", "RGBA(8)"))
       ELSE Unresolved(Err("FormatError", "Tuple type not recognized"))

tuple_type(h) ==
    IF h.subtype = "Bitmap" THEN bitmap_tuple_type(h)
    ELSE IF h.subtype = "Graymap" THEN graymap_tuple_type(h)
    ELSE IF h.subtype = "Pixmap" THEN pixmap_tuple_type(h)
    ELSE arbitrary_tuple_type(h)

(* TupleType::color                                                        *)
color(t) ==
    CASE t = "PbmBit" -> "Gray(1)"
      [] t = "BWBit" -> "Gray(1)"
      [] t = "GrayU8" -> "Gray(8)"
      [] t = "GrayU16" -> "Gray(16)"
      [] t = "RGBU8" -> "RGB(8)"
      [] t = "RGBU16" -> "GrayA(16)"

---------------------------------------------------------------------------
(* PNMDecoder::new: the outcome, and on Ok the decoder (reader, header,    *)
(* tuple).  parsed is the header record the grammar produced, which new    *)
(* drops when tuple_type refuses it.                                       *)

Encodings == <<"Ascii", "Ascii", "Ascii", "Binary", "Binary", "Binary">>

new(r) ==
    LET Stop(out, rd) == [out |-> out, reader |-> rd, header |-> NoHeader, tuple |-> "None",
                          parsed |-> NoHeader]
        with_tuple(hd, tt) ==
            IF tt.out.kind # "Ok" THEN [Stop(tt.out, hd.r) EXCEPT !.parsed = hd.header]
            ELSE [out |-> OkOutcome, reader |-> hd.r, header |-> hd.header,
                  tuple |-> tt.tuple, parsed |-> hd.header]
        with_header(hd) ==
            IF hd.out.kind # "Ok" THEN Stop(hd.out, hd.r)
            ELSE with_tuple(hd, tuple_type(hd.header))
        subtype(m, d) ==
            IF d \notin 1..7
            THEN Stop(Err("FormatError", "Expected magic constant for ppm, P1 through P7"),
                      m.r)
            ELSE with_header(
                     IF d \in {1, 4} THEN read_bitmap_header(m.r, Encodings[d])
                     ELSE IF d \in {2, 5} THEN read_graymap_header(m.r, Encodings[d])
                     ELSE IF d \in {3, 6} THEN read_pixmap_header(m.r, Encodings[d])
                     ELSE read_arbitrary_header(m.r))
        magic(m) ==
            IF m.out.kind # "Ok" THEN Stop(m.out, m.r)
            ELSE IF m.magic[1] # CHAR_P
                 THEN Stop(Err("FormatError",
                               "Expected magic constant for pnm, P1 through P7"), m.r)
            ELSE subtype(m, m.magic[2] - CHAR_0)
    IN magic(read_magic_constant(r))

---------------------------------------------------------------------------
(* Sample: bytelen, from_bytes, from_unsigned of U8, U16, PbmBit, BWBit.   *)

(* width * height * samples, left to right as the code multiplies.         *)
u32_mul3(width, height, samples) ==
    LET both(wh, whs) == [val |-> whs.val, ovf |-> wh.ovf \/ whs.ovf]
        area(wh) == both(wh, u32_mul(wh.val, samples))
    IN area(u32_mul(width, height))

u32_div8(x) == U32(x.hi \div 8, ((x.hi % 8) * 65536 + x.lo) \div 8)

(* (count / 8) + ((count % 8) != 0) as u32                                 *)
linelen_of(count) ==
    LET q == u32_div8(count)
        lo == q.lo + (IF count.lo % 8 # 0 THEN 1 ELSE 0)
    IN U32(q.hi + (lo \div 65536), lo % 65536)

U8_bytelen(width, height, samples) == u32_mul3(width, height, samples)

U16_bytelen(width, height, samples) ==
    LET both(whs, x) == [val |-> x.val, ovf |-> whs.ovf \/ x.ovf]
        count(whs) == both(whs, u32_mul(whs.val, Small(2)))
    IN count(u32_mul3(width, height, samples))

PbmBit_bytelen(width, height, samples) ==
    LET both(count, x) == [val |-> x.val, ovf |-> count.ovf \/ x.ovf]
        linelen(count) == both(count, u32_mul(linelen_of(count.val), height))
    IN linelen(u32_mul(width, samples))

BWBit_bytelen(width, height, samples) == U8_bytelen(width, height, samples)

bytelen(t, width, height, samples) ==
    CASE t = "PbmBit" -> PbmBit_bytelen(width, height, samples)
      [] t = "BWBit" -> BWBit_bytelen(width, height, samples)
      [] t \in {"GrayU8", "RGBU8"} -> U8_bytelen(width, height, samples)
      [] t \in {"GrayU16", "RGBU16"} -> U16_bytelen(width, height, samples)

Decoded(samples) == [out |-> OkOutcome, samples |-> samples]
NotDecoded(out) == [out |-> out, samples |-> <<>>]

U8_from_bytes(bytes, width, height, samples) == Decoded(bytes)

(* read_u16 taking the low byte first.                                     *)
read_u16_LittleEndian(bytes, i) == bytes[2 * i - 1] + 256 * bytes[2 * i]

(* BigEndian: the i-th u16 of bytes, high byte first.                      *)
read_u16(bytes, i) == 256 * bytes[2 * i - 1] + bytes[2 * i]

(* The buffer is resized to width * height * samples and filled by         *)
(* BigEndian::read_u16_into, which asserts that the lengths agree.         *)
U16_from_bytes(bytes, width, height, samples) ==
    LET read_u16_into(n) ==
            IF Len(bytes) % 2 # 0 \/ Len(bytes) \div 2 # n
            THEN NotDecoded(Panicked("read_u16_into: length mismatch"))
            ELSE Decoded([i \in 1..n |-> read_u16(bytes, i)])
    IN read_u16_into(as_usize(u32_mul3(width, height, samples).val))

(* bit_of without the shift.                                               *)
bit_of_Unshifted(byte, k) == byte % 2

(* (byte >> k) & 0x01                                                      *)
bit_of(byte, k) == (byte \div (2 ^ k)) % 2

(* Rows of linebytelen bytes (slice::chunks, which refuses a chunk size of *)
(* 0), of each the first linecount bits, high bit first, inverted.  Cell   *)
(* (line, samplei) is written to buffer[line * linecount + samplei]; an    *)
(* index outside a row or outside the buffer panics.                       *)
PbmBit_from_bytes(bytes, width, height, samples, overflow_checks) ==
    LET unpack(linecount, linebytelen, size, n) ==
            LET lines == (Len(bytes) + linebytelen - 1) \div linebytelen
                chunklen(line) == Min(linebytelen, Len(bytes) - line * linebytelen)
                cells == (0..(lines - 1)) \X (0..(linecount - 1))
                outside(c) == \/ c[2] \div 8 >= chunklen(c[1])
                              \/ c[1] * linecount + c[2] >= n
                sample(k) ==
                    LET line == k \div linecount
                        samplei == k % linecount
                        indicator ==
                            bit_of(bytes[line * linebytelen + (samplei \div 8) + 1],
                                   7 - (samplei % 8))
                    IN IF line >= lines THEN 0
                       ELSE IF indicator = 0 THEN 1 ELSE 0
            IN IF size.ovf /\ overflow_checks
               THEN NotDecoded(Panicked("attempt to multiply with overflow"))
               ELSE IF linebytelen = 0
                    THEN NotDecoded(Panicked("chunks: chunk size is zero"))
               ELSE IF \E c \in cells : outside(c)
                    THEN NotDecoded(Panicked("index out of bounds"))
               ELSE Decoded([k \in 1..n |-> sample(k - 1)])
        resize(count, size) ==
            unpack(as_usize(count), as_usize(linelen_of(count)), size, as_usize(size.val))
    IN resize(u32_mul(width, samples).val, u32_mul3(width, height, samples))

(* BWBit_from_bytes letting every value through.                           *)
BWBit_from_bytes_Unchecked(bytes, width, height, samples) ==
    U8_from_bytes(bytes, width, height, samples)

(* U8::from_bytes, then every value checked to be 0 or 1.                  *)
BWBit_from_bytes(bytes, width, height, samples) ==
    LET checked(values) ==
            IF \E i \in 1..Len(values.samples) : values.samples[i] > 1
            THEN NotDecoded(Err("FormatError", "Sample value outside of bounds"))
            ELSE values
    IN checked(U8_from_bytes(bytes, width, height, samples))

from_bytes(t, bytes, width, height, samples, overflow_checks) ==
    CASE t = "PbmBit" -> PbmBit_from_bytes(bytes, width, height, samples, overflow_checks)
      [] t = "BWBit" -> BWBit_from_bytes(bytes, width, height, samples)
      [] t \in {"GrayU8", "RGBU8"} -> U8_from_bytes(bytes, width, height, samples)
      [] t \in {"GrayU16", "RGBU16"} -> U16_from_bytes(bytes, width, height, samples)

Sample(v) == [ok |-> TRUE, v |-> v]
OutOfBounds == [ok |-> FALSE, v |-> 0]

U8_from_unsigned(val) == IF ~U32Le(val, Small(255)) THEN OutOfBounds ELSE Sample(val.lo)

U16_from_unsigned(val) == IF ~U32Le(val, Small(65535)) THEN OutOfBounds ELSE Sample(val.lo)

PbmBit_from_unsigned(val) ==
    IF val = Small(0) THEN Sample(1)
    ELSE IF val = Small(1) THEN Sample(0)
    ELSE OutOfBounds

BWBit_from_unsigned(val) ==
    IF val = Small(0) THEN Sample(0)
    ELSE IF val = Small(1) THEN Sample(1)
    ELSE OutOfBounds

from_unsigned(t, val) ==
    CASE t = "PbmBit" -> PbmBit_from_unsigned(val)
      [] t = "BWBit" -> BWBit_from_unsigned(val)
      [] t \in {"GrayU8", "RGBU8"} -> U8_from_unsigned(val)
      [] t \in {"GrayU16", "RGBU16"} -> U16_from_unsigned(val)

---------------------------------------------------------------------------
(* PNMDecoder: the sample engine.                                          *)

(* skip_while(!istoken): past the whitespace before a token.               *)
RECURSIVE skip_nontoken(_)
skip_nontoken(r) ==
    LET skip(nb) ==
            IF ~nb.some THEN [r |-> nb.r, token |-> <<>>]
            ELSE IF nb.byte \in Whitespace THEN skip_nontoken(nb.r)
            ELSE [r |-> nb.r, token |-> <<nb.byte>>]
    IN skip(next_byte(r))

(* take_while(istoken): the token, and the byte that ends it consumed.     *)
RECURSIVE take_token(_, _)
take_token(r, token) ==
    LET take(nb) ==
            IF ~nb.some \/ nb.byte \in Whitespace THEN [r |-> nb.r, token |-> token]
            ELSE take_token(nb.r, Append(token, nb.byte))
    IN take(next_byte(r))

read_ascii_sample(r) ==
    LET parse(x, p) ==
            IF ~is_ascii(x.token)
            THEN [out |-> Err("FormatError",
                              "Non ascii character where sample value was expected"),
                  r |-> x.r, val |-> Small(0)]
            ELSE IF ~p.ok
                 THEN [out |-> Err("FormatError", "Error parsing sample value"),
                       r |-> x.r, val |-> Small(0)]
            ELSE [out |-> OkOutcome, r |-> x.r, val |-> p.val]
        string(x) == parse(x, parse_u32(x.token))
        token(first) ==
            string(IF first.token = <<>> THEN first
                   ELSE take_token(first.r, first.token))
    IN token(skip_nontoken(r))

(* The loop of read_ascii with n samples still to read.                    *)
RECURSIVE ascii_loop(_, _, _, _)
ascii_loop(t, r, n, buffer) ==
    LET push(value, sample) ==
            IF value.out.kind # "Ok"
            THEN [out |-> value.out, reader |-> value.r, samples |-> <<>>]
            ELSE IF ~sample.ok
                 THEN [out |-> Err("FormatError", "Sample value outside of bounds"),
                       reader |-> value.r, samples |-> <<>>]
            ELSE ascii_loop(t, value.r, n - 1, Append(buffer, sample.v))
        convert(value) == push(value, from_unsigned(t, value.val))
    IN IF n = 0 THEN [out |-> OkOutcome, reader |-> r, samples |-> buffer]
       ELSE convert(read_ascii_sample(r))

(* overflow_checks: the build panics on an arithmetic overflow; without    *)
(* them the product wraps.                                                 *)
read_ascii(t, r, header, components, overflow_checks) ==
    LET reserve(count) ==
            IF count.ovf /\ overflow_checks
            THEN [out |-> Panicked("attempt to multiply with overflow"),
                  reader |-> r, samples |-> <<>>]
            ELSE ascii_loop(t, r, as_usize(count.val), <<>>)
    IN reserve(u32_mul3(header.width, header.height, components))

read_binary(t, r, header, components, overflow_checks) ==
    LET converted(x, y) == [out |-> y.out, reader |-> x.r, samples |-> y.samples]
        filled(x) ==
            IF ~x.ok
            THEN [out |-> Err("NotEnoughData", ""), reader |-> x.r, samples |-> <<>>]
            ELSE converted(x, from_bytes(t, SubSeq(r.data, r.pos + 1, x.r.pos),
                                         header.width, header.height, components,
                                         overflow_checks))
        sized(bytecount) ==
            IF bytecount.ovf /\ overflow_checks
            THEN [out |-> Panicked("attempt to multiply with overflow"),
                  reader |-> r, samples |-> <<>>]
            ELSE filled(read_exact(r, as_usize(bytecount.val)))
    IN sized(bytelen(t, header.width, header.height, components))

sample_encoding(header) ==
    IF header.subtype = "ArbitraryMap" THEN "Binary" ELSE header.encoding

components_of(t) == IF t \in {"RGBU8", "RGBU16"} THEN Small(3) ELSE Small(1)

(* PNMDecoder::read with read_samples::<S>(components)                     *)
read(t, r, header, overflow_checks) ==
    IF sample_encoding(header) = "Binary"
    THEN read_binary(t, r, header, components_of(t), overflow_checks)
    ELSE read_ascii(t, r, header, components_of(t), overflow_checks)

(* PNMHeader::width, PNMHeader::height behind ImageDecoder::dimensions     *)
dimensions(header) == <<header.width, header.height>>

(* ImageDecoder::colortype                                                 *)
colortype(t) == color(t)

---------------------------------------------------------------------------
(* The session.                                                            *)

VARIABLES
    pc,         \* "start", "opened", "decoded", "released", "failed", "aborted"
    reader,     \* the BufReader and the stream under it
    header,     \* PNMDecoder.header
    tuple,      \* PNMDecoder.tuple
    opened,     \* what PNMDecoder::new returned
    decoded,    \* what read_image returned
    samples,    \* the buffer read_image returned
    released,   \* what into_inner returned: the stream's position, the header
    body,       \* history: how many bytes new had consumed when it returned
    parsed      \* history: the header record handed to tuple_type

vars == <<pc, reader, header, tuple, opened, decoded, samples, released, body, parsed>>

NotYet == [kind |-> "None", err |-> "", msg |-> ""]
NotReleased == [some |-> FALSE, at |-> 0, header |-> NoHeader]

Stream(data, chunk) == [data |-> data, chunk |-> chunk, pos |-> 0, pulled |-> 0]

InitOn(inputs, chunks) ==
    /\ pc = "start"
    /\ reader \in {Stream(d, c) : d \in inputs, c \in chunks}
    /\ header = NoHeader
    /\ tuple = "None"
    /\ opened = NotYet
    /\ decoded = NotYet
    /\ samples = <<>>
    /\ released = NotReleased
    /\ body = 0
    /\ parsed = NoHeader

(* PNMDecoder::new(read)                                                   *)
New ==
    /\ pc = "start"
    /\ \E x \in {new(reader)} :
          /\ pc' = CASE x.out.kind = "Ok" -> "opened"
                     [] x.out.kind = "Err" -> "failed"
                     [] x.out.kind = "Panic" -> "aborted"
          /\ reader' = x.reader
          /\ header' = x.header
          /\ tuple' = x.tuple
          /\ opened' = x.out
          /\ body' = x.reader.pos
          /\ parsed' = x.parsed
    /\ UNCHANGED <<decoded, samples, released>>

(* ImageDecoder::read_image, once per session.                             *)
ReadImage ==
    /\ pc = "opened"
    /\ \E overflow_checks \in BOOLEAN :
       \E x \in {read(tuple, reader, header, overflow_checks)} :
            /\ pc' = IF x.out.kind = "Panic" THEN "aborted" ELSE "decoded"
            /\ reader' = x.reader
            /\ decoded' = x.out
            /\ samples' = x.samples
    /\ UNCHANGED <<header, tuple, opened, released, body, parsed>>

(* PNMDecoder::into_inner: BufReader::into_inner gives the stream back     *)
(* where the BufReader left it and drops what the buffer still holds.      *)
IntoInner ==
    /\ pc \in {"opened", "decoded"}
    /\ pc' = "released"
    /\ released' = [some |-> TRUE, at |-> reader.pulled, header |-> header]
    /\ UNCHANGED <<reader, header, tuple, opened, decoded, samples, body, parsed>>

Next == New \/ ReadImage \/ IntoInner

---------------------------------------------------------------------------
(* The streams the sessions are checked on.                                *)

MaxDim == 2
MaxBinLen == 3

(* n in decimal.                                                           *)
RECURSIVE Dec(_)
Dec(n) == IF n < 10 THEN <<CHAR_0 + n>> ELSE Append(Dec(n \div 10), CHAR_0 + (n % 10))

(* All sequences over S of length at most n.                               *)
SeqsUpTo(S, n) == UNION {[1..k -> S] : k \in 0..n}

(* A stream delivers a byte at a time, or whatever it is asked for.        *)
Chunks == {1, BufCap}

(* "P<d> <width> <height>\n" and "P<d> <width> <height> <maxval>\n"        *)
BitmapText(d, g) == <<CHAR_P, CHAR_0 + d, SP>> \o Dec(g[1]) \o <<SP>> \o Dec(g[2]) \o <<LF>>
PixmapText(d, g, m) ==
    <<CHAR_P, CHAR_0 + d, SP>> \o Dec(g[1]) \o <<SP>> \o Dec(g[2]) \o <<SP>> \o Dec(m) \o <<LF>>

SmallGeoms == (0..MaxDim) \X (0..MaxDim)
(* Geometries whose products leave 32 bits.                                *)
WideGeoms == {<<65536, 65536>>, <<32768, 65536>>}
WideBitmaps == {<<524288, 65536>>}
Maxvals == {255, 256, 65536}

BinBytes == {0, 1, 255}
BinPayloads ==
    SeqsUpTo(BinBytes, MaxBinLen)
    \cup {<<108, 183>>, <<1, 2, 3, 4>>, <<1, 2, 3, 4, 5, 6>>, <<1, 2, 3, 4, 5, 6, 7>>}

BinInputs ==
    {BitmapText(4, g) \o p : g \in SmallGeoms \cup WideBitmaps \cup {<<6, 2>>, <<9, 1>>, <<9, 2>>},
                             p \in BinPayloads}
    \cup {PixmapText(d, g, m) \o p : d \in {5, 6}, g \in SmallGeoms \cup WideGeoms,
                                     m \in Maxvals, p \in BinPayloads}

InitBin == InitOn(BinInputs, Chunks)
SpecBin == InitBin /\ [][Next]_vars

(* ASCII streams: P1, P2 and P3 headers followed by every short text over  *)
(* digits, blanks, line ends and '#', and by a few longer sample lists.    *)
MaxAsciiLen == 3

AsciiBytes == {CHAR_0, CHAR_0 + 1, CHAR_0 + 2, SP, HASH, LF}
AsciiPayloads ==
    SeqsUpTo(AsciiBytes, MaxAsciiLen)
    \cup {<<48, 32, 49, 32, 49, 32, 48>>,                 \* "0 1 1 0"
          <<49, 32, 48, 10, 48, 32, 49>>,                 \* "1 0\n0 1"
          <<49, 32, 35, 99, 10, 50>>,                     \* "1 #c\n2"
          <<49, 10, 35, 32, 99, 10, 48, 10>>,             \* "1\n# c\n0\n"
          <<49, 32, 50, 32, 51, 32, 35, 10, 52, 32, 53, 32, 54>>,  \* "1 2 3 #\n4 5 6"
          <<48, 32, 43, 49, 32, 48, 49, 32, 48, 48>>}     \* "0 +1 01 00"

AsciiGeoms == {<<0, 0>>, <<0, 1>>, <<1, 0>>, <<1, 1>>, <<2, 1>>, <<1, 2>>, <<2, 2>>}

AsciiInputs ==
    {BitmapText(1, g) \o p : g \in AsciiGeoms \cup {<<65536, 65536>>}, p \in AsciiPayloads}
    \cup {PixmapText(2, g, m) \o p : g \in {<<1, 1>>, <<2, 1>>}, m \in {1, 255},
                                     p \in AsciiPayloads}
    \cup {PixmapText(3, g, 255) \o p : g \in {<<1, 1>>, <<2, 1>>}, p \in AsciiPayloads}

InitAscii == InitOn(AsciiInputs, Chunks)
SpecAscii == InitAscii /\ [][Next]_vars

(* PAM streams.  A header is "P7\n" and a list of lines.                   *)
MaxDepth == 5

Line(key, value) == key \o <<SP>> \o value \o <<LF>>
NumLine(key, n) == Line(key, Dec(n))
EndHdr == kwENDHDR \o <<LF>>

RECURSIVE Concat(_)
Concat(lines) == IF lines = <<>> THEN <<>> ELSE Head(lines) \o Concat(Tail(lines))

PamText(lines) == <<CHAR_P, CHAR_0 + 7, LF>> \o Concat(lines)

(* WIDTH, HEIGHT, DEPTH, MAXVAL, the TUPLTYPE lines, ENDHDR.               *)
PamHeader(g, depth, maxval, tupltypes) ==
    PamText(<<NumLine(kwWIDTH, g[1]), NumLine(kwHEIGHT, g[2]), NumLine(kwDEPTH, depth),
              NumLine(kwMAXVAL, maxval)>> \o tupltypes \o <<EndHdr>>)

(* Black-and-white images over every small geometry and payload.           *)
PamBilevel ==
    {PamHeader(g, 1, 1, <<Line(kwTUPLTYPE, kwBLACKANDWHITE)>>) \o p :
        g \in SmallGeoms \cup {<<65536, 65536>>}, p \in BinPayloads}

TuplTypes ==
    {<<>>,
     <<Line(kwTUPLTYPE, kwBLACKANDWHITE)>>,
     <<Line(kwTUPLTYPE, kwGRAYSCALE)>>,
     <<Line(kwTUPLTYPE, kwRGB)>>,
     <<Line(kwTUPLTYPE, kwBLACKANDWHITE \o kwALPHA)>>,
     <<Line(kwTUPLTYPE, kwGRAYSCALE \o kwALPHA)>>,
     <<Line(kwTUPLTYPE, kwRGB \o kwALPHA)>>,
     <<Line(kwTUPLTYPE, <<88, 89, 90>>)>>,
     <<Line(kwTUPLTYPE, kwRGB), Line(kwTUPLTYPE, kwALPHA)>>}

(* Every depth and maxval class under every tuple type, and under none.    *)
PamTyped ==
    {PamHeader(g, depth, maxval, tt) \o p :
        g \in {<<0, 0>>, <<1, 1>>, <<2, 1>>}, depth \in 0..MaxDepth,
        maxval \in {1, 255, 256, 65535, 65536}, tt \in TuplTypes,
        p \in {<<>>, <<1, 0, 1, 0, 1, 0>>, <<1, 2, 3, 4, 5, 6, 7, 8, 9, 10, 11, 12>>}}

(* The four field lines in several orders, with ENDHDR, a second HEIGHT    *)
(* line and one more line each put at every place, also after ENDHDR.      *)
FieldLines == <<NumLine(kwWIDTH, 1), NumLine(kwHEIGHT, 1), NumLine(kwDEPTH, 1),
                NumLine(kwMAXVAL, 1)>>
FieldOrders == {<<1, 2, 3, 4>>, <<2, 3, 4, 1>>, <<3, 4, 1, 2>>, <<4, 1, 2, 3>>,
                <<4, 3, 2, 1>>, <<2, 1, 3, 4>>}
NoLine == <<>>
SecondLines == {NoLine, NumLine(kwHEIGHT, 2)}
ExtraLines == {NoLine,
               <<HASH, SP, 99, LF>>,                       \* "# c"
               Line(<<66, 79, 71, 85, 83>>, Dec(1)),       \* "BOGUS 1"
               NumLine(kwWIDTH, 2),
               NumLine(kwHEIGHT, 1),
               Line(kwHEIGHT, <<120>>)}                    \* "HEIGHT x"

Insert(lines, line, at) ==
    IF line = NoLine THEN lines
    ELSE SubSeq(lines, 1, at) \o <<line>> \o SubSeq(lines, at + 1, Len(lines))

PamShuffled ==
    {PamText(Insert(Insert(Insert([i \in 1..4 |-> FieldLines[o[i]]], EndHdr, e), x, j), y, k))
         \o <<1>> :
        o \in FieldOrders, e \in 0..4, x \in ExtraLines, j \in 0..5,
        y \in SecondLines, k \in 0..5}

PamInputs == PamBilevel \cup PamTyped \cup PamShuffled

InitPam == InitOn(PamInputs, Chunks)
SpecPam == InitPam /\ [][Next]_vars

---------------------------------------------------------------------------
(* Properties.                                                             *)

Opened == pc \in {"opened", "decoded", "released"} \/ (pc = "aborted" /\ opened.kind = "Ok")
Binary == Opened /\ sample_encoding(header) = "Binary"
(* read_image has run: it returned, or it panicked.                        *)
Ran == pc = "decoded" \/ (pc = "aborted" /\ opened.kind = "Ok")

(* The bytes of the stream after the header.                               *)
Payload == SubSeq(reader.data, body + 1, Len(reader.data))

(* width * height * components as a natural, or -1 when that is more than  *)
(* the stream has bytes (so that no stream of the model holds the image).  *)
SampleCount ==
    LET w == header.width
        h == header.height
        L == Len(reader.data)
    IN IF w = Small(0) \/ h = Small(0) THEN 0
       ELSE IF w.hi = 0 /\ h.hi = 0 /\ w.lo <= L /\ h.lo <= L
            THEN w.lo * h.lo * components_of(tuple).lo
       ELSE -1

(* C1: after one successful decode, into_inner returns the stream          *)
(* positioned immediately after the last byte the decoder consumed, so     *)
(* that every byte after the image can still be read from it.              *)
C1_StreamAfterPayload ==
    (pc = "released" /\ decoded.kind = "Ok") => released.at = reader.pos

(* C2: the buffer of a successful decode has exactly                       *)
(* width * height * components samples, the product taken in the naturals. *)
C2_BufferLength ==
    (Ran /\ decoded.kind = "Ok") => Len(samples) = SampleCount

(* C3: the colour classification of an opened decoder follows the tuple    *)
(* type symmetrically and never carries alpha.                             *)
C3_ColorOfTuple ==
    Opened =>
        colortype(tuple) = CASE tuple \in {"PbmBit", "BWBit"} -> "Gray(1)"
                             [] tuple = "GrayU8" -> "Gray(8)"
                             [] tuple = "GrayU16" -> "Gray(16)"
                             [] tuple = "RGBU8" -> "RGB(8)"
                             [] tuple = "RGBU16" -> "RGB(16)"

(* Bytes per sample of the 8-bit and 16-bit tuple types.                   *)
BytesPerSample == IF tuple \in {"GrayU16", "RGBU16"} THEN 2 ELSE 1

(* C4: on the binary path of an 8-bit or 16-bit gray or RGB image whose    *)
(* payload the stream holds, decode reads exactly k * width * height *     *)
(* components bytes and sample i is the big-endian value of the payload    *)
(* bytes k*i .. k*i + k - 1 (the byte itself for k = 1).                   *)
C4_BinarySamples ==
    ( /\ Ran
      /\ Binary
      /\ tuple \in {"GrayU8", "RGBU8", "GrayU16", "RGBU16"}
      /\ SampleCount >= 0
      /\ BytesPerSample * SampleCount <= Len(Payload) )
    => /\ decoded.kind = "Ok"
       /\ reader.pos - body = BytesPerSample * SampleCount
       /\ Len(samples) = SampleCount
       /\ \A i \in 1..SampleCount :
            samples[i] = IF BytesPerSample = 1 THEN Payload[i]
                         ELSE 256 * Payload[2 * i - 1] + Payload[2 * i]

C4_Witness ==
    /\ pc = "decoded" /\ Binary /\ tuple = "GrayU16" /\ decoded.kind = "Ok"
    /\ samples = <<258, 772>>

(* C5: a binary bitmap whose payload the stream holds is read as height    *)
(* rows of ceil(width / 8) bytes, and the sample at row r, column c is 1   *)
(* minus bit 7 - c mod 8 of byte r * stride + floor(c / 8): high bit       *)
(* first, each row padded on its own, the padding bits left out.  With a   *)
(* column to decode, decode returns the buffer.                            *)
Stride == (header.width.lo + 7) \div 8

C5_PackedBitmap ==
    ( /\ Ran
      /\ Binary
      /\ tuple = "PbmBit"
      /\ SampleCount >= 0
      /\ Stride * header.height.lo <= Len(Payload) )
    => /\ reader.pos - body = Stride * header.height.lo
       /\ header.width.lo >= 1 => decoded.kind = "Ok"
       /\ decoded.kind = "Ok" =>
            /\ Len(samples) = SampleCount
            /\ \A r \in 0..(header.height.lo - 1) : \A c \in 0..(header.width.lo - 1) :
                 samples[r * header.width.lo + c + 1]
                     = 1 - ((Payload[r * Stride + (c \div 8) + 1] \div 2 ^ (7 - (c % 8))) % 2)

C5_Witness ==
    /\ pc = "decoded" /\ Binary /\ tuple = "PbmBit" /\ decoded.kind = "Ok"
    /\ header.width = Small(9) /\ header.height = Small(2)
    /\ \E i, j \in 1..Len(samples) : samples[i] = 0 /\ samples[j] = 1

(* open() and decode() of a whole stream in one go.                        *)
DecodeOf(data, overflow_checks) ==
    LET decode(x) ==
            IF x.out.kind # "Ok" THEN [out |-> x.out, samples |-> <<>>]
            ELSE [out |-> read(x.tuple, x.reader, x.header, overflow_checks).out,
                  samples |-> read(x.tuple, x.reader, x.header, overflow_checks).samples]
    IN decode(new(Stream(data, BufCap)))

Ascii == Opened /\ sample_encoding(header) = "Ascii"

(* The whitespace-separated tokens of s.                                   *)
RECURSIVE TokensFrom(_, _, _, _)
TokensFrom(s, i, cur, acc) ==
    IF i > Len(s) THEN (IF cur = <<>> THEN acc ELSE Append(acc, cur))
    ELSE IF s[i] \in Whitespace
         THEN TokensFrom(s, i + 1, <<>>, IF cur = <<>> THEN acc ELSE Append(acc, cur))
    ELSE TokensFrom(s, i + 1, Append(cur, s[i]), acc)

Tokens == TokensFrom(Payload, 1, <<>>, <<>>)

(* Token i is the number 0 or the number 1.                                *)
IsBit(i) == parse_u32(Tokens[i]).ok /\ parse_u32(Tokens[i]).val \in {Small(0), Small(1)}
BitAt(i) == parse_u32(Tokens[i]).val.lo

(* The P4 payload of the pattern the first tokens spell: rows of Stride    *)
(* bytes, high bit first, the padding bits 0.                              *)
Packed ==
    LET w == header.width.lo
        bit(r, c) == IF c < w THEN BitAt(r * w + c + 1) ELSE 0
        byte(r, b) == bit(r, 8 * b) * 128 + bit(r, 8 * b + 1) * 64 + bit(r, 8 * b + 2) * 32
                      + bit(r, 8 * b + 3) * 16 + bit(r, 8 * b + 4) * 8 + bit(r, 8 * b + 5) * 4
                      + bit(r, 8 * b + 6) * 2 + bit(r, 8 * b + 7)
    IN [k \in 1..(Stride * header.height.lo) |->
            byte((k - 1) \div Stride, (k - 1) % Stride)]

(* C6: an ASCII bitmap whose stream holds its width * height tokens        *)
(* decodes, when every token is 0 or 1, to 1 minus each token, and the     *)
(* binary bitmap of the same width, height and pattern decodes to the same *)
(* buffer; with any other token decode fails with a format error.          *)
C6_AsciiBitmapAsBinary ==
    ( /\ Ran
      /\ Ascii
      /\ header.subtype = "Bitmap"
      /\ SampleCount >= 0
      /\ SampleCount <= Len(Tokens) )
    => IF \A i \in 1..SampleCount : IsBit(i)
       THEN /\ decoded.kind = "Ok"
            /\ samples = [i \in 1..SampleCount |-> 1 - BitAt(i)]
            /\ \A overflow_checks \in BOOLEAN :
                 DecodeOf(BitmapText(4, <<header.width.lo, header.height.lo>>) \o Packed,
                          overflow_checks)
                     = [out |-> decoded, samples |-> samples]
       ELSE decoded.kind = "Err" /\ decoded.err = "FormatError"

(* C7: a PAM image with TUPLTYPE BLACKANDWHITE, DEPTH 1 and MAXVAL 1 whose *)
(* payload the stream holds decodes to the payload bytes unchanged when    *)
(* each of them is 0 or 1, and fails with a format error and no buffer     *)
(* when one of them is greater than 1.                                     *)
C7_BlackAndWhite ==
    ( /\ Ran
      /\ header.subtype = "ArbitraryMap"
      /\ header.tupltype.tag = "BlackAndWhite"
      /\ header.depth = Small(1)
      /\ header.maxval = Small(1)
      /\ SampleCount >= 0
      /\ SampleCount <= Len(Payload) )
    => /\ tuple = "BWBit"
       /\ IF \A i \in 1..SampleCount : Payload[i] <= 1
          THEN decoded.kind = "Ok" /\ samples = SubSeq(Payload, 1, SampleCount)
          ELSE decoded.kind = "Err" /\ decoded.err = "FormatError" /\ samples = <<>>

C7_Witness ==
    /\ pc = "decoded" /\ tuple = "BWBit" /\ decoded.kind = "Ok"
    /\ header.width = Small(2) /\ header.height = Small(1)
    /\ samples = <<1, 0>>

(* The lines of a PAM stream after "P7\n", each named by the position of   *)
(* its first byte; a line ends before the next LF or with the stream.      *)
Data == reader.data
IsPam == Len(Data) >= 3 /\ SubSeq(Data, 1, 3) = <<CHAR_P, CHAR_0 + 7, LF>>
LineStarts == {a \in 4..Len(Data) : a = 4 \/ Data[a - 1] = LF}
LineEnd(a) ==
    LET ends == {i \in a..Len(Data) : Data[i] = LF}
    IN IF ends = {} THEN Len(Data) + 1 ELSE CHOOSE i \in ends : \A j \in ends : i <= j
LineAt(a) == SubSeq(Data, a, LineEnd(a) - 1)
KeyAt(a) == SubSeq(LineAt(a), 1, find_whitespace(LineAt(a)))
ValueAt(a) == SubSeq(LineAt(a), find_whitespace(LineAt(a)) + 1, Len(LineAt(a)))

HeightLines == {a \in LineStarts : KeyAt(a) = kwHEIGHT}

(* The second HEIGHT line of the stream.                                   *)
SecondHeight ==
    CHOOSE a \in HeightLines : Cardinality({b \in HeightLines : b < a}) = 1

(* The line loop passes the line at a: a comment, a TUPLTYPE line, or the  *)
(* first line of its field with a number for a value.                      *)
Passes(a) ==
    /\ LineAt(a) # <<>>
    /\ \/ LineAt(a)[1] = HASH
       \/ KeyAt(a) = kwTUPLTYPE
       \/ /\ KeyAt(a) \in {kwHEIGHT, kwWIDTH, kwDEPTH, kwMAXVAL}
          /\ parse_u32(trim(ValueAt(a))).ok
          /\ \A b \in LineStarts : b < a => KeyAt(b) # KeyAt(a)

DuplicateHeight == Err("FormatError", "Duplicate HEIGHT line")

(* C8 as stated: whenever HEIGHT appears on two lines of the stream, open  *)
(* fails with the duplicate-HEIGHT format error.                           *)
C8_DuplicateHeightAnywhere ==
    (pc # "start" /\ IsPam /\ Cardinality(HeightLines) >= 2) => opened = DuplicateHeight

(* C8, amended: when HEIGHT appears on two lines and the line loop passes  *)
(* every line before the second of them (none of them is ENDHDR, an        *)
(* unknown or malformed line, or the repetition of another field), open    *)
(* fails with the duplicate-HEIGHT format error.                           *)
C8_DuplicateHeightReached ==
    ( /\ pc # "start"
      /\ IsPam
      /\ Cardinality(HeightLines) >= 2
      /\ \A a \in LineStarts : a < SecondHeight => Passes(a) )
    => opened = DuplicateHeight

C8_Witness ==
    /\ pc = "failed"
    /\ IsPam
    /\ Cardinality(HeightLines) >= 2
    /\ \A a \in LineStarts : a < SecondHeight => Passes(a)
    /\ \E a \in LineStarts : a < SecondHeight /\ KeyAt(a) = kwMAXVAL
    /\ \E a \in LineStarts : a > SecondHeight /\ KeyAt(a) = kwENDHDR
    /\ opened = DuplicateHeight

(* C9: a PAM header without TUPLTYPE is resolved from its depth alone,     *)
(* whatever its other fields are: depth 1 opens as Gray8, depth 3 as RGB8, *)
(* depth 2 and depth 4 fail with UnsupportedColor, any other depth fails   *)
(* with a format error.                                                    *)
C9_DepthAlone ==
    (pc # "start" /\ parsed.subtype = "ArbitraryMap" /\ parsed.tupltype.tag = "None")
    => CASE parsed.depth = Small(1) ->
                opened.kind = "Ok" /\ tuple = "GrayU8" /\ colortype(tuple) = "Gray(8)"
         [] parsed.depth = Small(3) ->
                opened.kind = "Ok" /\ tuple = "RGBU8" /\ colortype(tuple) = "RGB(8)"
         [] parsed.depth \in {Small(2), Small(4)} ->
                opened.kind = "Err" /\ opened.err = "UnsupportedColor"
         [] OTHER -> opened.kind = "Err" /\ opened.err = "FormatError"

C9_Witness ==
    /\ pc = "failed"
    /\ parsed.subtype = "ArbitraryMap"
    /\ parsed.tupltype.tag = "None"
    /\ parsed.depth = Small(2)
    /\ parsed.maxval = U32(1, 0)
    /\ opened.err = "UnsupportedColor"

(* s without its comments: the bytes from a '#' up to the end of its line  *)
(* left out, the line end kept.                                            *)
RECURSIVE StripFrom(_, _, _)
StripFrom(s, i, commented) ==
    IF i > Len(s) THEN <<>>
    ELSE IF s[i] \in {LF, CR} THEN <<s[i]>> \o StripFrom(s, i + 1, FALSE)
    ELSE IF commented \/ s[i] = HASH THEN StripFrom(s, i + 1, TRUE)
    ELSE <<s[i]>> \o StripFrom(s, i + 1, FALSE)

Uncommented == SubSeq(Data, 1, body) \o StripFrom(Payload, 1, FALSE)

(* C10: an ASCII payload with comments decodes to what the payload without *)
(* them decodes to.                                                        *)
C10_CommentsInSamples ==
    ( /\ Ran
      /\ Ascii
      /\ SampleCount >= 0
      /\ \E i \in 1..Len(Payload) : Payload[i] = HASH
      /\ DecodeOf(Uncommented, FALSE).out.kind = "Ok" )
    => /\ decoded.kind = "Ok"
       /\ samples = DecodeOf(Uncommented, FALSE).samples

(* The header's maxval: maxwhite of a graymap, maxval of a pixmap or an    *)
(* arbitrary map.                                                          *)
MaxvalOf(h) == IF h.subtype = "Graymap" THEN h.maxwhite ELSE h.maxval

(* C11: every sample of the buffer a graymap or pixmap decodes to is at    *)
(* most the header's maxval, on the ASCII and on the binary path.          *)
C11_SamplesWithinMaxval ==
    (Ran /\ decoded.kind = "Ok" /\ header.subtype \in {"Graymap", "Pixmap"})
    => \A i \in 1..Len(samples) : U32Le(Small(samples[i]), MaxvalOf(header))

(* C12: open() returns a decoder or an error and never aborts, also when   *)
(* the stream of a P7 header ends before an ENDHDR line.                   *)
C12_OpenNeverAborts == opened.kind # "Panic"

(* C13: with TUPLTYPE GRAYSCALE open() succeeds exactly when depth = 1 and *)
(* maxval <= 65535, as Gray8 when maxval <= 255 and as Gray16 otherwise,   *)
(* and fails with a format error for every other depth or maxval.          *)
C13_GrayscaleDepthOne ==
    (pc # "start" /\ parsed.subtype = "ArbitraryMap" /\ parsed.tupltype.tag = "Grayscale")
    => IF parsed.depth = Small(1) /\ U32Le(parsed.maxval, Small(65535))
       THEN /\ opened.kind = "Ok"
            /\ tuple = IF U32Le(parsed.maxval, Small(255)) THEN "GrayU8" ELSE "GrayU16"
       ELSE opened.kind = "Err" /\ opened.err = "FormatError"

(* C14: an opened decoder whose header carries a maxval stores 8-bit       *)
(* samples only if maxval <= 255 and 16-bit samples only if                *)
(* 256 <= maxval <= 65535; no header with maxval > 65535 opens.            *)
C14_MaxvalDecidesStorage ==
    (Opened /\ header.subtype \in {"Graymap", "Pixmap", "ArbitraryMap"})
    => /\ U32Le(MaxvalOf(header), Small(65535))
       /\ tuple \in {"GrayU8", "RGBU8", "BWBit", "PbmBit"}
            => U32Le(MaxvalOf(header), Small(255))
       /\ tuple \in {"GrayU16", "RGBU16"} => ~U32Le(MaxvalOf(header), Small(255))

(* C18: decode() of an opened decoder returns a buffer or an error and     *)
(* never aborts, whatever the geometry.                                    *)
C18_DecodeNeverAborts == ~(pc = "aborted" /\ opened.kind = "Ok")

---------------------------------------------------------------------------
(* PAM headers: cut short, reordered, and with several TUPLTYPE lines.     *)

MaxTupl == 2

CommentLine == <<HASH, SP, 99, LF>>

(* A stream that ends anywhere in or after its header.                     *)
PamWhole ==
    PamText(<<CommentLine, NumLine(kwWIDTH, 1), NumLine(kwHEIGHT, 1), NumLine(kwDEPTH, 1),
              NumLine(kwMAXVAL, 1), EndHdr>>) \o <<1>>
PamTruncated == {SubSeq(PamWhole, 1, n) : n \in 0..Len(PamWhole)}

(* The field lines of a 2 x 1 RGB image, the fifth the TUPLTYPE line, in   *)
(* every order, a comment line at any place, then ENDHDR and a payload,    *)
(* one of which looks like more header lines.                              *)
OrderLines == <<NumLine(kwWIDTH, 2), NumLine(kwHEIGHT, 1), NumLine(kwDEPTH, 3),
                NumLine(kwMAXVAL, 255), Line(kwTUPLTYPE, kwRGB)>>
Perms(n) == {p \in [1..n -> 1..n] : \A i, j \in 1..n : i # j => p[i] # p[j]}
OrderPayloads == {<<1, 2, 3, 4, 5, 6>>, NumLine(kwWIDTH, 7) \o EndHdr}

PamOrderedOf(n) ==
    {PamText(Insert([i \in 1..n |-> OrderLines[p[i]]], c, j) \o <<EndHdr>>) \o q :
        p \in Perms(n), c \in {NoLine, CommentLine}, j \in 0..n, q \in OrderPayloads}
PamOrdered == PamOrderedOf(4) \cup PamOrderedOf(5)

(* TUPLTYPE values: keywords, a suffix, lower case, blanks around.         *)
TuplValues == {kwRGB, kwALPHA, <<114, 103, 98>>, <<SP, 82, 71, 66, TAB>>, kwGRAYSCALE}

(* The four field lines with the TUPLTYPE lines tl among them: tl[i] comes *)
(* after at[i] of the field lines.                                         *)
RECURSIVE Interleaved(_, _, _)
Interleaved(tl, at, k) ==
    LET here == {i \in 1..Len(tl) : at[i] = k}
        RECURSIVE Those(_)
        Those(i) == IF i > Len(tl) THEN <<>>
                    ELSE (IF i \in here THEN <<tl[i]>> ELSE <<>>) \o Those(i + 1)
    IN IF k = 4 THEN Those(1)
       ELSE Those(1) \o <<FieldLines[k + 1]>> \o Interleaved(tl, at, k + 1)

PamTuplTypesOf(n) ==
    {PamText(Interleaved([i \in 1..n |-> Line(kwTUPLTYPE, v[i])], at, 0) \o <<EndHdr>>)
         \o <<1>> :
        v \in [1..n -> TuplValues],
        at \in {a \in [1..n -> 0..4] : \A i, j \in 1..n : i < j => a[i] <= a[j]}}
PamTuplTypes == UNION {PamTuplTypesOf(n) : n \in 1..MaxTupl}

PamHeaderInputs == PamTruncated \cup PamOrdered \cup PamTuplTypes

InitPamHeader == InitOn(PamHeaderInputs, Chunks)
SpecPamHeader == InitPamHeader /\ [][Next]_vars

---------------------------------------------------------------------------
(* The PAM header as its lines.                                            *)

Least(S) == CHOOSE a \in S : \A b \in S : a <= b

EndLines == {a \in LineStarts : KeyAt(a) = kwENDHDR}
FirstEnd == Least(EndLines)

(* The lines before the ENDHDR line at fe that are no comments.            *)
HeaderStarts(fe) ==
    {a \in LineStarts : a < fe /\ (LineAt(a) = <<>> \/ LineAt(a)[1] # HASH)}
LinesOf(hs, key) == {a \in hs : KeyAt(a) = key}
FieldValue(hs, key) == parse_u32(trim(ValueAt(Least(LinesOf(hs, key))))).val

(* The tuple type a TUPLTYPE string names: one of the six keywords,        *)
(* letter for letter, or a custom type.                                    *)
NamedTuplType(s) ==
    CASE s = kwBLACKANDWHITE -> [tag |-> "BlackAndWhite", text |-> <<>>]
      [] s = kwBLACKANDWHITE \o kwALPHA -> [tag |-> "BlackAndWhiteAlpha", text |-> <<>>]
      [] s = kwGRAYSCALE -> [tag |-> "Grayscale", text |-> <<>>]
      [] s = kwGRAYSCALE \o kwALPHA -> [tag |-> "GrayscaleAlpha", text |-> <<>>]
      [] s = kwRGB -> [tag |-> "RGB", text |-> <<>>]
      [] s = kwRGB \o kwALPHA -> [tag |-> "RGBAlpha", text |-> <<>>]
      [] OTHER -> [tag |-> "Custom", text |-> s]

(* The trimmed values of the TUPLTYPE lines in S, in the order of the      *)
(* lines, with one space between two of them.                              *)
RECURSIVE Joined(_)
Joined(S) ==
    IF S = {} THEN <<>>
    ELSE IF S = {Least(S)} THEN trim(ValueAt(Least(S)))
    ELSE trim(ValueAt(Least(S))) \o <<SP>> \o Joined(S \ {Least(S)})

(* The header lines hs hold one well-formed line of each of the four       *)
(* fields, and besides them TUPLTYPE lines only.                           *)
WellFormed(hs) ==
    /\ \A a \in hs : KeyAt(a) \in {kwHEIGHT, kwWIDTH, kwDEPTH, kwMAXVAL, kwTUPLTYPE}
    /\ \A key \in {kwHEIGHT, kwWIDTH, kwDEPTH, kwMAXVAL} :
         /\ Cardinality(LinesOf(hs, key)) = 1
         /\ parse_u32(trim(ValueAt(Least(LinesOf(hs, key))))).ok

(* The header record the lines hs spell, whatever their order.             *)
Spelled(hs) ==
    [subtype |-> "ArbitraryMap",
     height |-> FieldValue(hs, kwHEIGHT), width |-> FieldValue(hs, kwWIDTH),
     depth |-> FieldValue(hs, kwDEPTH), maxval |-> FieldValue(hs, kwMAXVAL),
     tupltype |-> IF LinesOf(hs, kwTUPLTYPE) = {} THEN [tag |-> "None", text |-> <<>>]
                  ELSE NamedTuplType(Joined(LinesOf(hs, kwTUPLTYPE)))]

(* A P7 stream after open() that has an ENDHDR line.                       *)
Ended == pc # "start" /\ IsPam /\ EndLines # {}

(* C16: one HEIGHT, WIDTH, DEPTH and MAXVAL line and at most one TUPLTYPE  *)
(* line in any order, comment lines among them, then ENDHDR: the header    *)
(* record is the one the lines spell, the same for every order, and the    *)
(* header ends with the first ENDHDR line, the bytes after it payload.     *)
C16_OrderIndependent ==
    Ended =>
      LET fe == FirstEnd
          hs == HeaderStarts(fe)
      IN  (WellFormed(hs) /\ Cardinality(LinesOf(hs, kwTUPLTYPE)) <= 1)
          => /\ parsed = Spelled(hs)
             /\ body = Min(LineEnd(fe), Len(Data))

C16_Witness ==
    /\ pc = "opened"
    /\ Ended
    /\ KeyAt(4) = kwMAXVAL
    /\ LET fe == FirstEnd
           hs == HeaderStarts(fe)
       IN  /\ WellFormed(hs)
           /\ Cardinality(LinesOf(hs, kwTUPLTYPE)) = 1
           /\ \E a \in LineStarts : a < fe /\ LineAt(a)[1] = HASH
           /\ \E a \in LineStarts : a > fe /\ KeyAt(a) = kwWIDTH
           /\ header = Spelled(hs)
           /\ header.width = Small(2)
           /\ body = LineEnd(fe)

(* C17: the TUPLTYPE lines of a header, wherever they stand among the      *)
(* other lines, accumulate to their trimmed values joined in order by      *)
(* single spaces; the string names a tuple type only if it is one of the   *)
(* six keywords exactly and is kept as a custom type otherwise.            *)
C17_TuplTypeJoined ==
    Ended =>
      LET hs == HeaderStarts(FirstEnd)
      IN  (WellFormed(hs) /\ LinesOf(hs, kwTUPLTYPE) # {})
          => /\ parsed.subtype = "ArbitraryMap"
             /\ parsed.tupltype = NamedTuplType(Joined(LinesOf(hs, kwTUPLTYPE)))

C17_Witness ==
    /\ Ended
    /\ KeyAt(4) = kwTUPLTYPE
    /\ LET fe == FirstEnd
           hs == HeaderStarts(fe)
       IN  /\ WellFormed(hs)
           /\ Cardinality(LinesOf(hs, kwTUPLTYPE)) = 2
           /\ \E a \in LinesOf(hs, kwTUPLTYPE) : LineEnd(a) + 1 = fe
           /\ parsed.tupltype = [tag |-> "Custom", text |-> kwRGB \o <<SP>> \o kwALPHA]

---------------------------------------------------------------------------
(* Bitmap headers: the tokens of the preamble.                             *)

MaxNumLen == 3
MaxTokLen == 4

NumBytes == {CHAR_0, CHAR_0 + 4, PLUS, 45}
TokBytes == {CHAR_0 + 1, CHAR_0 + 2, SP, LF, CR, HASH}

(* 2^32 - 1, 2^32, and the former with a sign.                             *)
LongNumbers ==
    {<<52, 50, 57, 52, 57, 54, 55, 50, 57, 53>>,
     <<52, 50, 57, 52, 57, 54, 55, 50, 57, 54>>,
     <<PLUS, 52, 50, 57, 52, 57, 54, 55, 50, 57, 53>>}

(* An ASCII bitmap whose width is the token t.                             *)
NumberInputs ==
    {<<CHAR_P, CHAR_0 + 1, SP>> \o t \o <<SP, CHAR_0 + 1, LF, CHAR_0 + 1>> :
        t \in (SeqsUpTo(NumBytes, MaxNumLen) \ {<<>>}) \cup LongNumbers}

(* A binary bitmap with the bytes x between the magic number and a 1.      *)
TokenInputs ==
    {<<CHAR_P, CHAR_0 + 4, SP>> \o x \o <<SP, CHAR_0 + 1, LF, 0>> :
        x \in SeqsUpTo(TokBytes, MaxTokLen)}

HeaderInputs == NumberInputs \cup TokenInputs
InitHeader == InitOn(HeaderInputs, Chunks)
SpecHeader == InitHeader /\ [][Next]_vars

(* The stream is ASCII and starts with the magic number of a bitmap.       *)
IsBitmap ==
    /\ Len(Data) >= 2
    /\ SubSeq(Data, 1, 2) \in {<<CHAR_P, CHAR_0 + 1>>, <<CHAR_P, CHAR_0 + 4>>}
    /\ is_ascii(Data)

(* s without its comments: every byte from a '#' up to and including the   *)
(* next LF or CR removed.                                                  *)
RECURSIVE RemoveFrom(_, _, _)
RemoveFrom(s, i, commented) ==
    IF i > Len(s) THEN <<>>
    ELSE IF commented THEN RemoveFrom(s, i + 1, s[i] \notin {LF, CR})
    ELSE IF s[i] = HASH THEN RemoveFrom(s, i + 1, TRUE)
    ELSE <<s[i]>> \o RemoveFrom(s, i + 1, FALSE)

(* The whitespace-separated tokens after the magic number, comments        *)
(* removed first.                                                          *)
HeaderTokens ==
    TokensFrom(RemoveFrom(SubSeq(Data, 3, Len(Data)), 1, FALSE), 1, <<>>, <<>>)

(* A non-empty string of decimal digits whose value is at most 2^32 - 1.   *)
IsUint(t) ==
    /\ t # <<>>
    /\ \A i \in 1..Len(t) : t[i] \in CHAR_0..CHAR_9
    /\ parse_digits(t, 1, Small(0)).ok
UintOf(t) == parse_digits(t, 1, Small(0)).val

BitmapOf(w, h) ==
    [subtype |-> "Bitmap",
     encoding |-> IF Data[2] = CHAR_0 + 1 THEN "Ascii" ELSE "Binary",
     width |-> w, height |-> h]

(* C15: a header token yields its value only when it is a non-empty string *)
(* of decimal digits of value at most 2^32 - 1; any other token, one with  *)
(* a sign or too large a value included, fails with the invalid number     *)
(* format error.                                                           *)
C15_UintToken ==
    (pc # "start" /\ IsBitmap /\ (\A i \in 1..Len(Data) : Data[i] # HASH))
    => LET t == HeaderTokens
       IN  Len(t) >= 2
           => IF IsUint(t[1]) /\ IsUint(t[2])
              THEN parsed = BitmapOf(UintOf(t[1]), UintOf(t[2]))
              ELSE opened = Err("FormatError", "Invalid number in preamble")

(* C19: the header tokens are those of the bytes with every comment, its   *)
(* '#' through the LF or CR that ends it, removed before the split at      *)
(* whitespace: the bytes around a comment that no whitespace precedes are  *)
(* one token, and a comment after whitespace leaves its neighbours apart.  *)
C19_CommentJoinsTokens ==
    (pc # "start" /\ IsBitmap)
    => LET t == HeaderTokens
       IN  IF Len(t) >= 2 /\ parse_u32(t[1]).ok /\ parse_u32(t[2]).ok
           THEN parsed = BitmapOf(parse_u32(t[1]).val, parse_u32(t[2]).val)
           ELSE opened.kind = "Err" /\ parsed = NoHeader

(* "P4 1#" LF "2 1": the width is 12.                                      *)
C19_Witness ==
    /\ pc = "opened"
    /\ Len(Data) >= 9
    /\ SubSeq(Data, 1, 9) = <<CHAR_P, CHAR_0 + 4, SP, CHAR_0 + 1, HASH, LF, CHAR_0 + 2, SP, CHAR_0 + 1>>
    /\ header.width = Small(12)
    /\ header.height = Small(1)
====
